---- MODULE Spec2Model ----
(***************************************************************************)
(* Model of arangodb-events-rs: the Trigger (src/trigger.rs) following the *)
(* ArangoDB replication log, its record parser, its transaction buffer and *)
(* the SubscriptionManager (src/events.rs) that fans operations out to the *)
(* registered handlers.                                                    *)
(*                                                                         *)
(* A tick is a decimal string in the code; the model writes the tick "n"   *)
(* as the natural number n (the code only compares ticks for equality).    *)
(***************************************************************************)
EXTENDS Integers, Sequences, FiniteSets, TLC

\* ------------------------------------------------------------------ bounds
\* ticks the server hands out are 0..MaxTick
MaxTick == 2
\* listen() calls of one run (specification Spec)
MaxListens == 2
\* log records the server emits in one run (specification Spec)
MaxRecords == 3
\* log records the server emits in one run (specification SpecTx)
MaxTxRecords == 4
\* log records the server emits in one run (specification SpecCodes)
MaxCodeRecords == 3
MaxRegRecords == 1
MaxFairRecords == 2
MaxOrderRecords == 6
MaxAsyncRecords == 4
MaxErrRecords == 4
\* subscribe / subscribe_to calls of one run
MaxSubs == 3

Ticks == 0..MaxTick

\* --------------------------------------------------------- program values
\* response.headers().get(LAST_LOG_HEADER) is None
HdrAbsent == -1
\* the header is there but HeaderValue::to_str() fails on it
HdrInvalid == -2

Events == {"InsertOrReplace", "Remove"}
Collections == {"c1", "c2"}
HandlerNames == {"H1", "H2"}
\* "0" marks an operation outside any transaction
TxTids == {"A", "B"}
Tids == {"0"} \cup TxTids

\* the type codes of api.rs, LogType
KnownCodes ==
  {1100, 1101, 2000, 2001, 2002, 2003, 2004, 2100, 2101, 2110, 2111, 2112,
   2200, 2201, 2202, 2300, 2302}

\* impl TryFrom<u16> for LogType: the variant of a code, "Err" for the rest
LogTypeTryFrom(v) ==
  LET variant == [c \in KnownCodes |->
        CASE c = 1100 -> "CreateDatabase"
          [] c = 1101 -> "DropDatabase"
          [] c = 2000 -> "CreateCollection"
          [] c = 2001 -> "DropCollection"
          [] c = 2002 -> "RenameCollection"
          [] c = 2003 -> "ChangeCollection"
          [] c = 2004 -> "TruncateCollection"
          [] c = 2100 -> "CreateIndex"
          [] c = 2101 -> "DropIndex"
          [] c = 2110 -> "CreateView"
          [] c = 2111 -> "DropView"
          [] c = 2112 -> "ChangeView"
          [] c = 2200 -> "StartTransaction"
          [] c = 2201 -> "CommitTransaction"
          [] c = 2202 -> "AbortTransaction"
          [] c = 2300 -> "InsertOrReplaceDocument"
          [] c = 2302 -> "RemoveDocument"]
  IN IF v \in KnownCodes THEN variant[v] ELSE "Err"

\* ------------------------------------------------------------ line parsing
DigitChars == <<"0", "1", "2", "3", "4", "5", "6", "7", "8", "9">>

DigitValue(c) == (CHOOSE i \in 1..10 : DigitChars[i] = c) - 1

IsDigit(c) == \E i \in 1..10 : DigitChars[i] = c

\* the decimal text serde/the server writes for a number
RECURSIVE Decimal(_)
Decimal(n) ==
  IF n < 10 THEN <<DigitChars[n + 1]>>
  ELSE Decimal(n \div 10) \o <<DigitChars[(n % 10) + 1]>>

\* utils::get_string_between on the text that starts at `start`:
\* str.chars().skip(start).take(count)
get_string_between(str, start, count) ==
  SubSeq(str, start + 1, IF start + count < Len(str) THEN start + count ELSE Len(str))

\* the number the first n digits of s spell
RECURSIVE DigitsValue(_, _)
DigitsValue(s, n) ==
  IF n = 0 THEN 0
  ELSE 10 * DigitsValue(s, n - 1) + DigitValue(s[n])

\* str::parse::<u16>(): an optional '+', then one or more digits, value
\* below 2^16; -1 stands for Err(ParseIntError)
ParseU16(s) ==
  LET body == IF s # <<>> /\ s[1] = "+" THEN Tail(s) ELSE s
  IN IF body = <<>> \/ \E i \in 1..Len(body) : ~IsDigit(body[i]) THEN -1
     ELSE IF DigitsValue(body, Len(body)) >= 65536 THEN -1
     ELSE DigitsValue(body, Len(body))

\* ------------------------------------------------------------- log records
\* One line of the logger-follow body, as far as process_line looks at it:
\*   code       the type code the server wrote (what the record is)
\*   has_type   the literal "type": occurs in the line
\*   type_rest  the characters that follow that literal
\*   has_tid    the literal "tid":" occurs in the line
\*   tid        the characters between that literal and the next '"'
\*   json_ok    serde_json::from_str::<DocumentOperation>(line) succeeds
\*   cname      its "cname"
\*   data       its "data"; the server stamps every record with a payload of
\*              its own, written here as the record's serial number
TypeRest(code) == Decimal(code) \o <<",", "\"", "t">>

ServerLine(code, tid, cname, defect) ==
  [code |-> code,
   has_type |-> defect # "no_type",
   type_rest |-> IF defect = "no_type" THEN <<>>
                 ELSE IF defect = "bad_type" THEN <<"\"", "x", "\"", ",">>
                 ELSE TypeRest(code),
   has_tid |-> defect # "no_tid",
   tid |-> IF defect = "no_tid" THEN "" ELSE tid,
   json_ok |-> defect # "bad_json",
   cname |-> cname,
   data |-> 0]

NoLine == ServerLine(0, "", "", "no_type")

\* ------------------------------------------------------------------ results
Ok == [kind |-> "Ok", status |-> 0]

Err(kind) == [kind |-> kind, status |-> 0]

\* impl From<hyper::StatusCode> for Error
ApiErr(status) == [kind |-> "Api", status |-> status]

NoRet == [kind |-> "none", status |-> 0]

\* ------------------------------------------------------------------- state
VARIABLES
  last_log_tick,            \* Trigger.last_log_tick
  transactions,             \* Trigger.transactions: tid -> operations
  subscriptions,            \* SubscriptionManager.subscriptions: event -> list
  collection_subscriptions, \* SubscriptionManager.collection_subscriptions
  pc,                       \* where the running init()/listen() stands
  current_tick,             \* listen(): the cursor snapshot, the from= value
  line,                     \* listen(): the line read last
  pending,                  \* the handler invocations process_line still owes
  call,                     \* the public method called last
  ret,                      \* what it returned
  resp,                     \* the response it got: its status and the tick it
                            \* carries (header of logger-follow, state.lastLogTick
                            \* of logger-state; HdrInvalid when unreadable)
  slept,                    \* listen(): idle sleeps it performed
  calls,                    \* every Handler::call made so far
  warns,                    \* every downcast warning printed so far
  nlisten,                  \* listen() calls so far
  nrec,                     \* records the server has emitted so far
  srv,                      \* the server's open transactions, by its records
  aborted,                  \* the operations the server aborted: tid and payload
  restarted,                \* the operations of a transaction the server started again
  registered,               \* every subscribe/subscribe_to call, in call order
  calls_before,             \* Len(calls) when the listen() called last started
  running,                  \* the callbacks called and not yet completed
  merged                    \* buffer and calls had all records come in one body

vars ==
  <<last_log_tick, transactions, subscriptions, collection_subscriptions, pc,
    current_tick, line, pending, call, ret, resp, slept, calls, warns,
    nlisten, nrec, srv, aborted, restarted, registered, calls_before,
    running, merged>>

NoResp == [status |-> 0, header |-> HdrAbsent]

\* Trigger::new
Init ==
  /\ last_log_tick = 0
  /\ transactions = <<>>
  /\ subscriptions = [e \in Events |-> <<>>]
  /\ collection_subscriptions = <<>>
  /\ pc = "idle"
  /\ current_tick = 0
  /\ line = NoLine
  /\ pending = <<>>
  /\ call = "new"
  /\ ret = NoRet
  /\ resp = NoResp
  /\ slept = 0
  /\ calls = <<>>
  /\ warns = <<>>
  /\ nlisten = 0
  /\ nrec = 0
  /\ srv = <<>>
  /\ aborted = {}
  /\ restarted = {}
  /\ registered = <<>>
  /\ calls_before = 0
  /\ running = {}
  /\ merged = [txs |-> <<>>, calls |-> <<>>]

\* ------------------------------------------------------ transaction buffer
\* HashMap::insert
MapInsert(m, k, v) == [x \in DOMAIN m \cup {k} |-> IF x = k THEN v ELSE m[x]]

\* HashMap::remove
MapRemove(m, k) == [x \in DOMAIN m \ {k} |-> m[x]]

Fail(txs) == [err |-> TRUE, txs |-> txs, exec |-> <<>>]

Done(txs, exec) == [err |-> FALSE, txs |-> txs, exec |-> exec]

\* create_operation: the TransactionOperation of a document record
create_operation(ln, log_type) ==
  [ev |-> IF log_type = "RemoveDocument" THEN "Remove" ELSE "InsertOrReplace",
   cname |-> ln.cname,
   data |-> ln.data]

\* a StartTransaction arm that leaves the entry of a tid it already holds
StartArmKeeps(ln, txs) ==
  IF ~ln.has_tid THEN Fail(txs)
  ELSE IF ln.tid \in DOMAIN txs THEN Done(txs, <<>>)
  ELSE Done(MapInsert(txs, ln.tid, <<>>), <<>>)

\* a StartTransaction arm that begins with a buffer of this tid alone
StartArmResets(ln, txs) ==
  IF ~ln.has_tid THEN Fail(txs)
  ELSE Done(MapInsert(<<>>, ln.tid, <<>>), <<>>)

\* LogType::StartTransaction arm
StartArm(ln, txs) ==
  IF ~ln.has_tid THEN Fail(txs)
  ELSE Done(MapInsert(txs, ln.tid, <<>>), <<>>)

\* the document arm without its tid == "0" branch: a standalone operation is
\* looked up in the buffer like any other
DocumentArmNoStandalone(ln, txs, log_type) ==
  IF ~ln.has_tid THEN Fail(txs)
  ELSE IF ln.tid \in DOMAIN txs
    THEN IF ~ln.json_ok THEN Fail(txs)
         ELSE Done([txs EXCEPT ![ln.tid] =
                      Append(@, create_operation(ln, log_type))], <<>>)
  ELSE Done(txs, <<>>)

\* a document arm that opens a buffer entry for a tid it does not know
DocumentArmAutoStart(ln, txs, log_type) ==
  IF ~ln.has_tid THEN Fail(txs)
  ELSE IF ~ln.json_ok THEN Fail(txs)
  ELSE IF ln.tid = "0"
    THEN Done(txs, <<[tid |-> "0", op |-> create_operation(ln, log_type)]>>)
  ELSE Done(MapInsert(txs, ln.tid,
              (IF ln.tid \in DOMAIN txs THEN txs[ln.tid] ELSE <<>>)
                \o <<create_operation(ln, log_type)>>), <<>>)

\* a document arm that executes the operation of an open transaction when
\* its record arrives instead of buffering it
DocumentArmEager(ln, txs, log_type) ==
  IF ~ln.has_tid THEN Fail(txs)
  ELSE IF ln.tid = "0" \/ ln.tid \in DOMAIN txs
    THEN IF ~ln.json_ok THEN Fail(txs)
         ELSE Done(txs, <<[tid |-> ln.tid,
                           op |-> create_operation(ln, log_type)]>>)
  ELSE Done(txs, <<>>)

\* LogType::RemoveDocument | LogType::InsertOrReplaceDocument arm
DocumentArm(ln, txs, log_type) ==
  IF ~ln.has_tid THEN Fail(txs)
  ELSE IF ln.tid = "0"
    THEN IF ~ln.json_ok THEN Fail(txs)
         ELSE Done(txs, <<[tid |-> "0", op |-> create_operation(ln, log_type)]>>)
  ELSE IF ln.tid \in DOMAIN txs
    THEN IF ~ln.json_ok THEN Fail(txs)
         ELSE Done([txs EXCEPT ![ln.tid] =
                      Append(@, create_operation(ln, log_type))], <<>>)
  ELSE Done(txs, <<>>)

RECURSIVE AllBuffered(_, _)
AllBuffered(txs, S) ==
  IF S = {} THEN <<>>
  ELSE LET t == CHOOSE t \in S : TRUE
       IN [i \in 1..Len(txs[t]) |-> [tid |-> t, op |-> txs[t][i]]]
            \o AllBuffered(txs, S \ {t})

\* a commit loop that executes every buffered transaction, whatever its tid
CommitOpsAll(txs, tid) ==
  IF tid \in DOMAIN txs THEN AllBuffered(txs, DOMAIN txs) ELSE <<>>

\* the operations the commit loop executes: those of transactions.get(tid)
CommitOps(txs, tid) ==
  IF tid \in DOMAIN txs
  THEN [i \in 1..Len(txs[tid]) |-> [tid |-> tid, op |-> txs[tid][i]]]
  ELSE <<>>

\* a commit arm that rejects a tid the buffer does not hold
CommitArmStrict(ln, txs) ==
  IF ~ln.has_tid THEN Fail(txs)
  ELSE IF ln.tid \notin DOMAIN txs THEN Fail(txs)
  ELSE Done(txs, CommitOps(txs, ln.tid))

\* a commit arm that flushes the whole buffer: every buffered operation is
\* executed and every entry dropped
CommitArmDrainsAll(ln, txs) ==
  IF ~ln.has_tid THEN Fail(txs)
  ELSE IF ln.tid \in DOMAIN txs
    THEN Done(<<>>, CommitOps(txs, ln.tid)
                      \o AllBuffered(txs, DOMAIN txs \ {ln.tid}))
  ELSE Done(txs, <<>>)

\* LogType::CommitTransaction arm: the buffer is read, never written
CommitArm(ln, txs) ==
  IF ~ln.has_tid THEN Fail(txs)
  ELSE Done(txs, CommitOps(txs, ln.tid))

\* an abort arm that leaves the transaction in the buffer
AbortArmKeeps(ln, txs) ==
  IF ~ln.has_tid THEN Fail(txs)
  ELSE Done(txs, <<>>)

\* LogType::AbortTransaction arm
AbortArm(ln, txs) ==
  IF ~ln.has_tid THEN Fail(txs)
  ELSE Done(MapRemove(txs, ln.tid), <<>>)

\* the type code process_line reads: the 4 characters after "type":, parsed
ParsedCode(ln) == ParseU16(get_string_between(ln.type_rest, 0, 4))

\* Trigger::process_line: the error flag, the buffer after the line and the
\* operations handed to execute_operation, in order
process_line(ln, txs) ==
  IF ~ln.has_type THEN Fail(txs)
  ELSE IF ParsedCode(ln) = -1 THEN Fail(txs)
  ELSE LET log_type == LogTypeTryFrom(ParsedCode(ln)) IN
    CASE log_type = "StartTransaction" -> StartArm(ln, txs)
      [] log_type \in {"RemoveDocument", "InsertOrReplaceDocument"} ->
           DocumentArm(ln, txs, log_type)
      [] log_type = "CommitTransaction" -> CommitArm(ln, txs)
      [] log_type = "AbortTransaction" -> AbortArm(ln, txs)
      [] OTHER -> Done(txs, <<>>)

\* ----------------------------------------------------------------- registry
\* SubscriptionMap::insert: push onto the event's list
SubscriptionMapInsert(map, ev, sub) == [map EXCEPT ![ev] = Append(@, sub)]

EmptySubscriptionMap == [e \in Events |-> <<>>]

NSubs ==
  LET n(map) == Len(map["InsertOrReplace"]) + Len(map["Remove"])
      RECURSIVE sum(_)
      sum(S) == IF S = {} THEN 0
                ELSE LET c == CHOOSE c \in S : TRUE
                     IN n(collection_subscriptions[c]) + sum(S \ {c})
  IN n(subscriptions) + sum(DOMAIN collection_subscriptions)

\* a dispatch_event that runs the subscriptions of every event of the map
dispatch_event_any_kind(map, ev, scope) ==
  LET all == map[ev] \o map[CHOOSE e \in Events : e # ev]
  IN [i \in 1..Len(all) |->
        [scope |-> scope, idx |-> i, name |-> all[i].name,
         ctx_ok |-> all[i].ctx_ok]]

\* dispatch_event: the subscriptions of one map for the event, in list order
dispatch_event(map, ev, scope) ==
  [i \in 1..Len(map[ev]) |->
     [scope |-> scope, idx |-> i, name |-> map[ev][i].name,
      ctx_ok |-> map[ev][i].ctx_ok]]

\* a call that serves the collection's subscriptions before the global ones
SubscriptionManagerCallCollectionFirst(subs, csubs, ev, collection) ==
  (IF collection \in DOMAIN csubs
   THEN dispatch_event(csubs[collection], ev, collection)
   ELSE <<>>)
    \o dispatch_event(subs, ev, "global")

\* SubscriptionManager::call: the global subscriptions, then the collection's
SubscriptionManagerCall(subs, csubs, ev, collection) ==
  dispatch_event(subs, ev, "global")
    \o (IF collection \in DOMAIN csubs
        THEN dispatch_event(csubs[collection], ev, collection)
        ELSE <<>>)

\* Trigger::execute_operation of x = [tid, op] while record `by` is processed:
\* the handler invocations it makes, in order
execute_operation(subs, csubs, x, by) ==
  LET fan == SubscriptionManagerCall(subs, csubs, x.op.ev, x.op.cname)
  IN [i \in 1..Len(fan) |->
        [scope |-> fan[i].scope, idx |-> fan[i].idx, name |-> fan[i].name,
         ctx_ok |-> fan[i].ctx_ok, ev |-> x.op.ev, cname |-> x.op.cname,
         data |-> x.op.data, tid |-> x.tid, by |-> by]]

\* the invocations of a sequence of operations executed one after the other
RECURSIVE ExecuteAll(_, _, _, _)
ExecuteAll(subs, csubs, exec, by) ==
  IF exec = <<>> THEN <<>>
  ELSE execute_operation(subs, csubs, Head(exec), by)
         \o ExecuteAll(subs, csubs, Tail(exec), by)

\* the record of a Handler::call that was made
CallOf(inv) ==
  [scope |-> inv.scope, idx |-> inv.idx, name |-> inv.name, ev |-> inv.ev,
   cname |-> inv.cname, data |-> inv.data, tid |-> inv.tid, by |-> inv.by]

\* --------------------------------------------------- the server's own view
Defective(ln) == ~ln.has_type \/ ~ln.has_tid \/ ~ln.json_ok

\* the operation a document record stands for
SrvOp(ln) ==
  [ev |-> IF ln.code = 2302 THEN "Remove" ELSE "InsertOrReplace",
   cname |-> ln.cname,
   data |-> ln.data]

\* the open transactions on the server after it emitted record ln
SrvAfter(ln, s) ==
  IF Defective(ln) THEN s
  ELSE CASE ln.code = 2200 -> MapInsert(s, ln.tid, <<>>)
         [] ln.code \in {2300, 2302} /\ ln.tid \in DOMAIN s ->
              [s EXCEPT ![ln.tid] = Append(@, SrvOp(ln))]
         [] ln.code \in {2201, 2202} -> MapRemove(s, ln.tid)
         [] OTHER -> s

\* the operations record ln aborts
AbortedBy(ln, s) ==
  IF ~Defective(ln) /\ ln.code = 2202 /\ ln.tid \in DOMAIN s
  THEN {[tid |-> ln.tid, data |-> s[ln.tid][i].data] : i \in 1..Len(s[ln.tid])}
  ELSE {}

\* the operations a StartTransaction record leaves behind: those the server
\* sent under an earlier start of the same tid that it never ended
RestartedBy(ln, s) ==
  IF ~Defective(ln) /\ ln.code = 2200 /\ ln.tid \in DOMAIN s
  THEN {[tid |-> ln.tid, data |-> s[ln.tid][i].data] : i \in 1..Len(s[ln.tid])}
  ELSE {}

\* the body loop of listen() run over every record so far as one body: the
\* buffer it holds and the calls it has made after record ln
MergedAfter(ln, m, subs, csubs) ==
  LET r == process_line(ln, m.txs)
      made == SelectSeq(ExecuteAll(subs, csubs, r.exec, ln.data),
                        LAMBDA v : v.ctx_ok)
  IN IF r.err THEN m
     ELSE [txs |-> r.txs,
           calls |-> m.calls \o [i \in 1..Len(made) |-> CallOf(made[i])]]

\* ------------------------------------------------------- init() and listen()
\* an init() that accepts 204 as listen() does
init_response_accepts_204(status, body_ok, tick, last) ==
  IF status \in {200, 204}
  THEN IF body_ok THEN [ret |-> Ok, tick |-> tick]
       ELSE [ret |-> Err("Serialize"), tick |-> last]
  ELSE [ret |-> ApiErr(status), tick |-> last]

\* init(): the result and the cursor after the logger-state response;
\* body_ok says that the body decodes into LoggerStateData
init_response(status, body_ok, tick, last) ==
  IF status = 200
  THEN IF body_ok THEN [ret |-> Ok, tick |-> tick]
       ELSE [ret |-> Err("Serialize"), tick |-> last]
  ELSE [ret |-> ApiErr(status), tick |-> last]

\* a listen() that does not single out the header "0"
HeaderIsZeroNever(header) == FALSE

\* listen(): value == "0"
HeaderIsZero(header) == header = 0

\* a listen() that answers the header "0" by sending its request again
listen_response_polls_again(status, header, cur, last) ==
  IF status \notin {200, 204}
  THEN [pc |-> "idle", ret |-> ApiErr(status), tick |-> last, sleep |-> 0]
  ELSE IF header = HdrInvalid
  THEN [pc |-> "idle", ret |-> Err("Serialize"), tick |-> last, sleep |-> 0]
  ELSE IF header # HdrAbsent /\ HeaderIsZero(header)
  THEN [pc |-> "listen_wait", ret |-> NoRet, tick |-> last, sleep |-> 0]
  ELSE LET next_log_tick == IF header = HdrAbsent THEN cur ELSE header
       IN IF next_log_tick # cur
          THEN [pc |-> "read", ret |-> NoRet, tick |-> next_log_tick, sleep |-> 0]
          ELSE [pc |-> "idle", ret |-> Ok, tick |-> next_log_tick, sleep |-> 0]

\* a listen() that stores the header "0" in the cursor before it sleeps
listen_response_stores_zero(status, header, cur, last) ==
  IF status \notin {200, 204}
  THEN [pc |-> "idle", ret |-> ApiErr(status), tick |-> last, sleep |-> 0]
  ELSE IF header = HdrInvalid
  THEN [pc |-> "idle", ret |-> Err("Serialize"), tick |-> last, sleep |-> 0]
  ELSE IF header # HdrAbsent /\ HeaderIsZero(header)
  THEN [pc |-> "idle", ret |-> Ok, tick |-> header, sleep |-> 1]
  ELSE LET next_log_tick == IF header = HdrAbsent THEN cur ELSE header
       IN IF next_log_tick # cur
          THEN [pc |-> "read", ret |-> NoRet, tick |-> next_log_tick, sleep |-> 0]
          ELSE [pc |-> "idle", ret |-> Ok, tick |-> next_log_tick, sleep |-> 0]

\* a listen() that reads the body without storing the header in the cursor
listen_response_keeps_cursor(status, header, cur, last) ==
  IF status \notin {200, 204}
  THEN [pc |-> "idle", ret |-> ApiErr(status), tick |-> last, sleep |-> 0]
  ELSE IF header = HdrInvalid
  THEN [pc |-> "idle", ret |-> Err("Serialize"), tick |-> last, sleep |-> 0]
  ELSE IF header # HdrAbsent /\ HeaderIsZero(header)
  THEN [pc |-> "idle", ret |-> Ok, tick |-> last, sleep |-> 1]
  ELSE LET next_log_tick == IF header = HdrAbsent THEN cur ELSE header
       IN IF next_log_tick # cur
          THEN [pc |-> "read", ret |-> NoRet, tick |-> last, sleep |-> 0]
          ELSE [pc |-> "idle", ret |-> Ok, tick |-> last, sleep |-> 0]

\* a listen() that stores the header in the cursor before it looks at the
\* status
listen_response_header_first(status, header, cur, last) ==
  LET moved == IF header \in {HdrAbsent, HdrInvalid} THEN last ELSE header
  IN IF status \notin {200, 204}
     THEN [pc |-> "idle", ret |-> ApiErr(status), tick |-> moved, sleep |-> 0]
     ELSE IF header = HdrInvalid
     THEN [pc |-> "idle", ret |-> Err("Serialize"), tick |-> last, sleep |-> 0]
     ELSE IF header # HdrAbsent /\ HeaderIsZero(header)
     THEN [pc |-> "idle", ret |-> Ok, tick |-> last, sleep |-> 1]
     ELSE LET next_log_tick == IF header = HdrAbsent THEN cur ELSE header
          IN IF next_log_tick # cur
             THEN [pc |-> "read", ret |-> NoRet, tick |-> next_log_tick,
                   sleep |-> 0]
             ELSE [pc |-> "idle", ret |-> Ok, tick |-> next_log_tick,
                   sleep |-> 0]

\* a listen() that reads the body whatever the header is
listen_response_always_reads(status, header, cur, last) ==
  IF status \notin {200, 204}
  THEN [pc |-> "idle", ret |-> ApiErr(status), tick |-> last, sleep |-> 0]
  ELSE IF header = HdrInvalid
  THEN [pc |-> "idle", ret |-> Err("Serialize"), tick |-> last, sleep |-> 0]
  ELSE IF header # HdrAbsent /\ HeaderIsZero(header)
  THEN [pc |-> "idle", ret |-> Ok, tick |-> last, sleep |-> 1]
  ELSE [pc |-> "read", ret |-> NoRet,
        tick |-> IF header = HdrAbsent THEN cur ELSE header, sleep |-> 0]

\* listen(): from the logger-follow response up to the first read_line;
\* cur is current_tick, last is last_log_tick before the response
listen_response(status, header, cur, last) ==
  IF status \notin {200, 204}
  THEN [pc |-> "idle", ret |-> ApiErr(status), tick |-> last, sleep |-> 0]
  ELSE IF header = HdrInvalid
  THEN [pc |-> "idle", ret |-> Err("Serialize"), tick |-> last, sleep |-> 0]
  ELSE IF header # HdrAbsent /\ HeaderIsZero(header)
  THEN [pc |-> "idle", ret |-> Ok, tick |-> last, sleep |-> 1]
  ELSE LET next_log_tick == IF header = HdrAbsent THEN cur ELSE header
       IN IF next_log_tick # cur
          THEN [pc |-> "read", ret |-> NoRet, tick |-> next_log_tick, sleep |-> 0]
          ELSE [pc |-> "idle", ret |-> Ok, tick |-> next_log_tick, sleep |-> 0]

\* ------------------------------------------------------------------ actions
Locals == <<current_tick, line, pending, running>>
Registry == <<subscriptions, collection_subscriptions, registered>>
Server == <<nrec, srv, aborted, restarted, merged>>
Cycle == <<nlisten, calls_before>>
Output == <<calls, warns>>

\* subscriptions are made before the first init()/listen()
RegistryOpen == pc = "idle" /\ call = "new" /\ NSubs < MaxSubs

\* Trigger::subscribe::<H>(event, ctx)
Subscribe(ev, name, ctx_ok) ==
  /\ RegistryOpen
  /\ subscriptions' =
       SubscriptionMapInsert(subscriptions, ev, [name |-> name, ctx_ok |-> ctx_ok])
  /\ registered' = Append(registered,
       [scope |-> "global", ev |-> ev, name |-> name, ctx_ok |-> ctx_ok])
  /\ UNCHANGED <<last_log_tick, transactions, collection_subscriptions, pc,
                 Locals, call, ret, resp, slept, Output, Cycle, Server>>

\* Trigger::subscribe_to::<H>(event, collection, ctx)
SubscribeTo(ev, collection, name, ctx_ok) ==
  /\ RegistryOpen
  /\ collection_subscriptions' =
       MapInsert(collection_subscriptions, collection,
         SubscriptionMapInsert(
           IF collection \in DOMAIN collection_subscriptions
           THEN collection_subscriptions[collection]
           ELSE EmptySubscriptionMap,
           ev, [name |-> name, ctx_ok |-> ctx_ok]))
  /\ registered' = Append(registered,
       [scope |-> collection, ev |-> ev, name |-> name, ctx_ok |-> ctx_ok])
  /\ UNCHANGED <<last_log_tick, transactions, subscriptions, pc, Locals, call,
                 ret, resp, slept, Output, Cycle, Server>>

\* init() is called, before or between the listen() calls, and sends its
\* request
InitStart ==
  /\ pc = "idle"
  /\ nlisten < MaxListens
  /\ pc' = "init_wait"
  /\ call' = "init"
  /\ ret' = NoRet
  /\ resp' = NoResp
  /\ UNCHANGED <<last_log_tick, transactions, Registry, Locals, slept,
                 Output, Cycle, Server>>

\* the request of init() or listen() fails in the HTTP client
TransportError ==
  /\ pc \in {"init_wait", "listen_wait"}
  /\ pc' = "idle"
  /\ ret' = Err("Http")
  /\ UNCHANGED <<last_log_tick, transactions, Registry, Locals, call, resp,
                 slept, Output, Cycle, Server>>

\* init() receives the logger-state response
InitResponse(status, body_ok, tick) ==
  /\ pc = "init_wait"
  /\ LET r == init_response(status, body_ok, tick, last_log_tick)
     IN /\ last_log_tick' = r.tick
        /\ ret' = r.ret
  /\ pc' = "idle"
  /\ resp' = [status |-> status,
              header |-> IF body_ok THEN tick ELSE HdrInvalid]
  /\ UNCHANGED <<transactions, Registry, Locals, call, slept, Output, Cycle,
                 Server>>

\* a listen() that starts every call with an empty transaction buffer
ListenStartFresh ==
  /\ pc = "idle"
  /\ nlisten < MaxListens
  /\ current_tick' = last_log_tick
  /\ transactions' = <<>>
  /\ pc' = "listen_wait"
  /\ call' = "listen"
  /\ ret' = NoRet
  /\ resp' = NoResp
  /\ slept' = 0
  /\ nlisten' = nlisten + 1
  /\ calls_before' = Len(calls)
  /\ UNCHANGED <<running, last_log_tick, Registry, line, pending, Output, Server>>

\* listen() is called, snapshots the cursor and sends from=current_tick
ListenStart ==
  /\ pc = "idle"
  /\ nlisten < MaxListens
  /\ current_tick' = last_log_tick
  /\ pc' = "listen_wait"
  /\ call' = "listen"
  /\ ret' = NoRet
  /\ resp' = NoResp
  /\ slept' = 0
  /\ nlisten' = nlisten + 1
  /\ calls_before' = Len(calls)
  /\ UNCHANGED <<running, last_log_tick, transactions, Registry, line, pending, Output,
                 Server>>

\* listen() receives the logger-follow response
ListenResponse(status, header) ==
  /\ pc = "listen_wait"
  /\ LET r == listen_response(status, header, current_tick, last_log_tick)
     IN /\ pc' = r.pc
        /\ ret' = r.ret
        /\ last_log_tick' = r.tick
        /\ slept' = slept + r.sleep
  /\ resp' = [status |-> status, header |-> header]
  /\ UNCHANGED <<transactions, Registry, Locals, call, Output, Cycle, Server>>

\* deserializer.read_line() yields the next record of the body (a 204
\* response has no body); max bounds the records of the run
ReadLine(rec, max) ==
  /\ pc = "read"
  /\ resp.status = 200
  /\ nrec < max
  /\ nrec' = nrec + 1
  /\ line' = [rec EXCEPT !.data = nrec + 1]
  /\ pc' = "process"
  /\ UNCHANGED <<running, last_log_tick, transactions, Registry, current_tick, pending,
                 call, ret, resp, slept, Output, Cycle, srv, aborted, restarted,
                 merged>>

\* read_line() returns None: the body is exhausted, listen() returns Ok
ReadEof ==
  /\ pc = "read"
  /\ pc' = "idle"
  /\ ret' = Ok
  /\ UNCHANGED <<last_log_tick, transactions, Registry, Locals, call, resp,
                 slept, Output, Cycle, Server>>

\* a listen() that puts the cursor back when the body cannot be read
ReadErrorRollsBack ==
  /\ pc = "read"
  /\ resp.status = 200
  /\ pc' = "idle"
  /\ ret' = Err("IoOther")
  /\ last_log_tick' = current_tick
  /\ UNCHANGED <<transactions, Registry, Locals, call, resp, slept, Output,
                 Cycle, Server>>

\* read_line() fails on the stream of a 200 body: listen() returns Io(Other)
ReadError ==
  /\ pc = "read"
  /\ resp.status = 200
  /\ pc' = "idle"
  /\ ret' = Err("IoOther")
  /\ UNCHANGED <<last_log_tick, transactions, Registry, Locals, call, resp,
                 slept, Output, Cycle, Server>>

\* a line loop that skips a line process_line fails on and reads the next
ProcessLineSkipsBadRecord ==
  /\ pc = "process"
  /\ LET r == process_line(line, transactions)
         p == ExecuteAll(subscriptions, collection_subscriptions, r.exec,
                         line.data)
     IN /\ transactions' = r.txs
        /\ pending' = p
        /\ pc' = IF p = <<>> THEN "read" ELSE "exec"
        /\ ret' = ret
  /\ srv' = SrvAfter(line, srv)
  /\ aborted' = aborted \cup AbortedBy(line, srv)
  /\ restarted' = restarted \cup RestartedBy(line, srv)
  /\ merged' = MergedAfter(line, merged, subscriptions, collection_subscriptions)
  /\ UNCHANGED <<running, last_log_tick, Registry, current_tick, line, call,
                 resp, slept, Output, Cycle, nrec>>

\* process_line(line) up to its first handler invocation
ProcessLine ==
  /\ pc = "process"
  /\ LET r == process_line(line, transactions)
         p == ExecuteAll(subscriptions, collection_subscriptions, r.exec,
                         line.data)
     IN IF r.err
        THEN /\ pc' = "idle"
             /\ ret' = Err("Serialize")
             /\ UNCHANGED <<transactions, pending>>
        ELSE /\ transactions' = r.txs
             /\ pending' = p
             /\ pc' = IF p = <<>> THEN "read" ELSE "exec"
             /\ ret' = ret
  /\ srv' = SrvAfter(line, srv)
  /\ aborted' = aborted \cup AbortedBy(line, srv)
  /\ restarted' = restarted \cup RestartedBy(line, srv)
  /\ merged' = MergedAfter(line, merged, subscriptions, collection_subscriptions)
  /\ UNCHANGED <<running, last_log_tick, Registry, current_tick, line, call, resp,
                 slept, Output, Cycle, nrec>>

\* a dispatch that gives up at the first context that does not downcast
HandlerStepStopsOnMismatch ==
  /\ pc = "exec"
  /\ IF Head(pending).ctx_ok
     THEN /\ calls' = Append(calls, CallOf(Head(pending)))
          /\ warns' = warns
          /\ pending' = Tail(pending)
     ELSE /\ warns' = Append(warns, Head(pending).name)
          /\ calls' = calls
          /\ pending' = <<>>
  /\ pc' = IF pending' = <<>> THEN "read" ELSE "exec"
  /\ UNCHANGED <<running, last_log_tick, transactions, Registry, current_tick, line,
                 call, ret, resp, slept, Cycle, Server>>

\* dispatch_event: the next subscription's callback runs to completion, or
\* its context does not downcast and the warning is printed
HandlerStep ==
  /\ pc = "exec"
  /\ IF Head(pending).ctx_ok
     THEN /\ calls' = Append(calls, CallOf(Head(pending)))
          /\ warns' = warns
     ELSE /\ warns' = Append(warns, Head(pending).name)
          /\ calls' = calls
  /\ pending' = Tail(pending)
  /\ pc' = IF Tail(pending) = <<>> THEN "read" ELSE "exec"
  /\ UNCHANGED <<running, last_log_tick, transactions, Registry, current_tick, line,
                 call, ret, resp, slept, Cycle, Server>>

\* dispatch_event: the callback of the next subscription is called and
\* panics inside `cb.await`; nothing between Handler::call and the caller of
\* listen() catches it, so listen() unwinds and the invocations that remain
\* in pending are never made
HandlerPanic ==
  /\ pc = "exec"
  /\ Head(pending).ctx_ok
  /\ calls' = Append(calls, CallOf(Head(pending)))
  /\ pending' = Tail(pending)
  /\ pc' = "panicked"
  /\ UNCHANGED <<running, last_log_tick, transactions, Registry, current_tick, line,
                 call, ret, resp, slept, warns, Cycle, Server>>

\* a callback started without being awaited: the loop goes on at once
HandlerBeginSpawned ==
  /\ pc = "exec"
  /\ Head(pending).ctx_ok
  /\ calls' = Append(calls, CallOf(Head(pending)))
  /\ running' = running \cup {CallOf(Head(pending))}
  /\ pending' = Tail(pending)
  /\ pc' = IF Tail(pending) = <<>> THEN "read" ELSE "exec"
  /\ UNCHANGED <<last_log_tick, transactions, Registry, current_tick, line,
                 call, ret, resp, slept, warns, Cycle, Server>>

\* dispatch_event: the callback of the next subscription is called and its
\* future is pending at `cb.await`; listen() is suspended there with it
HandlerBegin ==
  /\ pc = "exec"
  /\ Head(pending).ctx_ok
  /\ calls' = Append(calls, CallOf(Head(pending)))
  /\ running' = running \cup {CallOf(Head(pending))}
  /\ pc' = "await"
  /\ UNCHANGED <<last_log_tick, transactions, Registry, current_tick, line,
                 pending, call, ret, resp, slept, warns, Cycle, Server>>

\* the pending callback completes: `cb.await` returns and the loops go on
HandlerEnd ==
  /\ pc = "await"
  /\ running' = running \ {CallOf(Head(pending))}
  /\ pending' = Tail(pending)
  /\ pc' = IF Tail(pending) = <<>> THEN "read" ELSE "exec"
  /\ UNCHANGED <<last_log_tick, transactions, Registry, current_tick, line,
                 call, ret, resp, slept, Output, Cycle, Server>>

\* ----------------------------------------------------------- specifications
Statuses == {200, 204, 404, 500}

Headers == {HdrAbsent, HdrInvalid} \cup Ticks

\* the records of the specification Spec: one transaction, a standalone
\* operation and a line that does not parse
Records ==
  {ServerLine(c, "A", "", "none") : c \in {2200, 2201}}
    \cup {ServerLine(2300, t, "c1", "none") : t \in {"0", "A"}}
    \cup {ServerLine(2300, "0", "c1", "bad_json")}

\* one handler for the event, subscribed once
SubscribeOnce(ev) ==
  /\ subscriptions[ev] = <<>>
  /\ Subscribe(ev, "H1", TRUE)

\* Spec: every response the server can give, few kinds of records
Next ==
  \/ SubscribeOnce("InsertOrReplace")
  \/ InitStart
  \/ TransportError
  \/ \E status \in {200, 204, 500}, body_ok \in BOOLEAN, tick \in Ticks :
       InitResponse(status, body_ok, tick)
  \/ ListenStart
  \/ \E status \in Statuses, header \in Headers : ListenResponse(status, header)
  \/ \E rec \in Records : ReadLine(rec, MaxRecords)
  \/ ReadEof
  \/ ReadError
  \/ ProcessLine
  \/ HandlerStep

Spec == Init /\ [][Next]_vars

\* the records of the specification SpecFair: a standalone operation and a
\* line that does not decode
FairRecords ==
  {ServerLine(2300, "0", "c1", d) : d \in {"none", "bad_json"}}

\* the steps of a running listen(): the response or the transport error
\* arrives, the body yields its next line or its end, the line is processed,
\* the next handler returns
ListenSteps ==
  \/ pc = "listen_wait" /\ TransportError
  \/ \E status \in Statuses, header \in Headers : ListenResponse(status, header)
  \/ \E rec \in FairRecords : ReadLine(rec, MaxFairRecords)
  \/ ReadEof
  \/ ReadError
  \/ ProcessLine
  \/ HandlerStep

NextFair ==
  \/ SubscribeOnce("InsertOrReplace")
  \/ ListenStart
  \/ ListenSteps

\* SpecFair: every response, short bodies, a server that answers, a body
\* that ends and an executor that keeps polling the future of listen()
SpecFair == Init /\ [][NextFair]_vars /\ WF_vars(ListenSteps)

\* the records of the specification SpecTx
TxRecords ==
  {ServerLine(c, t, "", "none") : c \in {2200, 2201, 2202}, t \in TxTids}
    \cup {ServerLine(c, t, "c1", "none") : c \in {2300, 2302}, t \in Tids}
    \cup {ServerLine(2000, "0", "", "none")}
    \cup {ServerLine(2300, "0", "c1", "bad_json"),
          ServerLine(2201, "A", "", "no_tid"),
          ServerLine(2300, "A", "c1", "no_type")}

\* a server whose response carries new records: status 200, the header one
\* tick ahead of from=
FreshResponse ==
  /\ current_tick < MaxTick
  /\ ListenResponse(200, current_tick + 1)

\* SpecTx: a server that always has new records, of every known kind
NextTx ==
  \/ \E ev \in Events : SubscribeOnce(ev)
  \/ ListenStart
  \/ FreshResponse
  \/ \E rec \in TxRecords : ReadLine(rec, MaxTxRecords)
  \/ ReadEof
  \/ ProcessLine
  \/ HandlerStep

SpecTx == Init /\ [][NextTx]_vars

\* type codes outside LogType that a server may write
UnknownCodes == {0, 999, 2301, 9999, 22001, 22011, 65535}

\* the records of the specification SpecCodes
CodeRecords ==
  {ServerLine(2200, "A", "", "none"), ServerLine(2300, "A", "c1", "none")}
    \cup {ServerLine(c, "A", "", "none") : c \in UnknownCodes}

\* SpecCodes: an open transaction and records of unknown type
NextCodes ==
  \/ SubscribeOnce("InsertOrReplace")
  \/ ListenStart
  \/ FreshResponse
  \/ \E rec \in CodeRecords : ReadLine(rec, MaxCodeRecords)
  \/ ReadEof
  \/ ProcessLine
  \/ HandlerStep

SpecCodes == Init /\ [][NextCodes]_vars

\* the records of the specification SpecReg: standalone operations of both
\* kinds on the collection c1
RegRecords ==
  {ServerLine(c, "0", cn, "none") : c \in {2300, 2302}, cn \in Collections}

\* the handlers of the specification SpecReg: H1 subscribed with a value of
\* its Context type, H2 with a value of its Context type or of another type
RegHandlers ==
  {[name |-> "H1", ctx_ok |-> TRUE], [name |-> "H2", ctx_ok |-> TRUE],
   [name |-> "H2", ctx_ok |-> FALSE]}

\* SpecReg: every sequence of subscribe/subscribe_to calls, handlers that
\* may panic, one standalone operation per record
NextReg ==
  \/ \E ev \in Events, h \in RegHandlers : Subscribe(ev, h.name, h.ctx_ok)
  \/ \E ev \in Events, c \in Collections, h \in RegHandlers :
       SubscribeTo(ev, c, h.name, h.ctx_ok)
  \/ ListenStart
  \/ FreshResponse
  \/ \E rec \in RegRecords : ReadLine(rec, MaxRegRecords)
  \/ ReadEof
  \/ ProcessLine
  \/ HandlerStep
  \/ HandlerPanic

SpecReg == Init /\ [][NextReg]_vars

\* the records of the specification SpecOrder: two transactions that
\* interleave, with insert operations on c1
OrderRecords ==
  {ServerLine(c, t, "", "none") : c \in {2200, 2201}, t \in TxTids}
    \cup {ServerLine(2300, t, "c1", "none") : t \in TxTids}

\* SpecOrder: well-formed records of two transactions, split into bodies of
\* consecutive listen() calls at any point
NextOrder ==
  \/ SubscribeOnce("InsertOrReplace")
  \/ ListenStart
  \/ FreshResponse
  \/ \E rec \in OrderRecords : ReadLine(rec, MaxOrderRecords)
  \/ ReadEof
  \/ ProcessLine
  \/ HandlerStep

SpecOrder == Init /\ [][NextOrder]_vars

\* the records of the specification SpecAsync: one transaction and standalone
\* operations
AsyncRecords ==
  {ServerLine(c, "A", "", "none") : c \in {2200, 2201}}
    \cup {ServerLine(2300, t, "c1", "none") : t \in {"0", "A"}}

\* SpecAsync: handlers whose futures complete at the first poll or suspend
\* and complete later
NextAsync ==
  \/ \E h \in RegHandlers : Subscribe("InsertOrReplace", h.name, h.ctx_ok)
  \/ ListenStart
  \/ FreshResponse
  \/ \E rec \in AsyncRecords : ReadLine(rec, MaxAsyncRecords)
  \/ ReadEof
  \/ ProcessLine
  \/ HandlerStep
  \/ HandlerBegin
  \/ HandlerEnd

SpecAsync == Init /\ [][NextAsync]_vars

\* the records of the specification SpecErr: a transaction, a standalone
\* operation, and lines that lack a literal, carry a type that is no number,
\* or do not decode
ErrRecords ==
  {ServerLine(2200, "A", "", "none"), ServerLine(2201, "A", "", "none")}
    \cup {ServerLine(2300, t, "c1", "none") : t \in {"0", "A"}}
    \cup {ServerLine(2300, t, "c1", "bad_json") : t \in Tids}
    \cup {ServerLine(2300, "A", "c1", "no_type"),
          ServerLine(0, "A", "c1", "bad_type"),
          ServerLine(2201, "A", "", "no_tid"),
          ServerLine(2000, "", "", "no_tid")}

\* SpecErr: bodies in which any line may be malformed
NextErr ==
  \/ SubscribeOnce("InsertOrReplace")
  \/ ListenStart
  \/ FreshResponse
  \/ \E rec \in ErrRecords : ReadLine(rec, MaxErrRecords)
  \/ ReadEof
  \/ ProcessLine
  \/ HandlerStep

SpecErr == Init /\ [][NextErr]_vars

\* =================================================================== claims
\* listen()/init() is not in the middle of a record
Quiet == pc \in {"read", "idle", "listen_wait", "init_wait"}

\* the record read last is a well-formed record of the given type
IsRecord(code) == ~Defective(line) /\ line.code = code

\* the calls Handler::call receives from a sequence of invocations
CallsOf(invs) ==
  LET made == SelectSeq(invs, LAMBDA v : v.ctx_ok)
  IN [i \in 1..Len(made) |-> CallOf(made[i])]

\* the invocations a correct consumer owes for the record read last: those of
\* the operations the server put in the transaction it commits, in order
CommitOwes ==
  IF IsRecord(2201) /\ line.tid \in DOMAIN srv
  THEN ExecuteAll(subscriptions, collection_subscriptions,
         [i \in 1..Len(srv[line.tid]) |->
            [tid |-> line.tid, op |-> srv[line.tid][i]]],
         line.data)
  ELSE <<>>

\* C1: the handler invocations a record causes for transactions are exactly
\* those of the operations received between the StartTransaction and the
\* CommitTransaction of the transaction it commits, each once and in order;
\* a record that commits no open transaction causes none.
C1_CommitDispatchesExactlyOnce ==
  [][pc = "process" =>
       SelectSeq(pending', LAMBDA v : v.tid # "0") = CommitOwes]_vars

\* C2: once a well-formed CommitTransaction(tid) record has been processed,
\* tid is not in the transaction buffer.
C2_CommittedLeavesBuffer ==
  (Quiet /\ IsRecord(2201)) => line.tid \notin DOMAIN transactions

\* C3: when listen() has returned an error, the cursor is the one the call
\* started with.
C3_ErrorKeepsCursor ==
  (pc = "idle" /\ call = "listen" /\ ret.kind \notin {"Ok", "none"})
    => last_log_tick = current_tick

\* C4: the handler calls one CommitTransaction record produces are contiguous
\* in the call history and all belong to the transaction it commits; the
\* calls a standalone record produces belong to no transaction.
C4_CommitBatchContiguous ==
  /\ \A i, j \in DOMAIN calls :
       (i < j /\ calls[i].by = calls[j].by) =>
         \A k \in i..j : calls[k].by = calls[i].by /\ calls[k].tid = calls[i].tid
  /\ \A i \in DOMAIN calls :
       calls[i].by = line.data =>
         calls[i].tid = IF IsRecord(2201) THEN line.tid ELSE "0"

C4_Witness ==
  \E i, j \in DOMAIN calls :
    /\ i < j
    /\ calls[i].by = calls[j].by
    /\ calls[i].tid # "0"
    /\ calls[i].data # calls[j].data

\* C5: no operation of an aborted transaction is handed to a handler, at the
\* abort or at any later record.
C5_AbortedNeverDispatched ==
  \A a \in aborted :
    /\ \A i \in DOMAIN calls : calls[i].data # a.data
    /\ \A i \in DOMAIN pending : pending[i].data # a.data

C5_Witness ==
  /\ pc = "read"
  /\ IsRecord(2201)
  /\ \E a \in aborted : a.tid = line.tid /\ a.data < line.data
  /\ \A ev \in Events : subscriptions[ev] # <<>>

\* C6: a listen() whose 200/204 response carries the header "0" returns Ok at
\* once and changes neither the cursor, the call history, the transaction
\* buffer nor the records read.
C6_IdleZeroChangesNothing ==
  [][(pc = "listen_wait" /\ resp'.status \in {200, 204} /\ resp'.header = 0)
       => /\ pc' = "idle"
          /\ ret' = Ok
          /\ last_log_tick' = last_log_tick
          /\ last_log_tick' = current_tick
          /\ transactions' = transactions
          /\ calls' = calls
          /\ pending' = <<>>
          /\ nrec' = nrec]_vars

C6_Witness ==
  /\ pc = "idle" /\ call = "listen" /\ ret = Ok
  /\ resp.status \in {200, 204} /\ resp.header = 0
  /\ last_log_tick # 0
  /\ DOMAIN transactions # {}

\* C7: a listen() whose 200/204 response has no header returns Ok after one
\* idle sleep, with the cursor unchanged.
C7_AbsentHeaderSleeps ==
  (pc = "idle" /\ call = "listen" /\ resp.status \in {200, 204}
     /\ resp.header = HdrAbsent)
    => ret = Ok /\ slept = 1 /\ last_log_tick = current_tick

\* C8: after a listen() that returned Ok the cursor is not below the cursor
\* the call started with.
C8_CursorMonotone ==
  (pc = "idle" /\ call = "listen" /\ ret = Ok) => last_log_tick >= current_tick

\* the record read last is a well-formed standalone document operation
StandaloneLine ==
  ~Defective(line) /\ line.code \in {2300, 2302} /\ line.tid = "0"

\* the calls the standalone operation of the record read last produces
StandaloneCalls ==
  CallsOf(execute_operation(subscriptions, collection_subscriptions,
            [tid |-> "0", op |-> SrvOp(line)], line.data))

\* C9: no record is read while handler invocations are owed; when the next
\* record can be read after a standalone document operation, all of its
\* handler calls have been made and the operation is in no transaction.
C9_StandaloneImmediate ==
  /\ pc \in {"read", "process"} => pending = <<>>
  /\ (StandaloneLine /\ Quiet) =>
       /\ Len(calls) >= Len(StandaloneCalls)
       /\ SubSeq(calls, Len(calls) - Len(StandaloneCalls) + 1, Len(calls))
            = StandaloneCalls
       /\ \A t \in DOMAIN transactions :
            \A i \in 1..Len(transactions[t]) :
              transactions[t][i].data # line.data

C9_Witness ==
  /\ pc = "read"
  /\ StandaloneLine
  /\ calls # <<>>
  /\ calls[Len(calls)].by = line.data
  /\ DOMAIN transactions # {}

\* C10: processing a well-formed record whose type code is outside the known
\* set returns no error, owes and makes no handler call and leaves the
\* transaction buffer as it was.
C10_UnknownCodeIsNoOp ==
  [][(pc = "process" /\ ~Defective(line) /\ line.code \notin KnownCodes)
       => /\ pc' = "read"
          /\ ret' = ret
          /\ pending' = <<>>
          /\ calls' = calls
          /\ transactions' = transactions]_vars

\* the subscribe/subscribe_to calls, in call order, that registered a handler
\* of kind ev in the given scope with a context that downcasts
RegisteredFor(scope, ev) ==
  SelectSeq(registered,
    LAMBDA r : r.scope = scope /\ r.ev = ev /\ r.ctx_ok)

\* the order in which one dispatch of ev on collection c must fire: scope and
\* handler of every call
FanOutOrder(ev, c) ==
  LET order == RegisteredFor("global", ev) \o RegisteredFor(c, ev)
  IN [i \in 1..Len(order) |->
        [scope |-> order[i].scope, name |-> order[i].name]]

\* scope and handler of the calls made for the record read last
FiredForLine ==
  LET fired == SelectSeq(calls, LAMBDA v : v.by = line.data)
  IN [i \in 1..Len(fired) |->
        [scope |-> fired[i].scope, name |-> fired[i].name]]

\* C11: the handler calls of the dispatch of one standalone operation of kind
\* k on collection c are, at every moment, a prefix of (the global
\* subscriptions for k in registration order) followed by (the subscriptions
\* for collection c and kind k in registration order), whatever the sequence
\* of subscribe/subscribe_to calls was; when the next record can be read they
\* are the whole of it.
C11_FanOutOrder ==
  StandaloneLine =>
    LET order == FanOutOrder(SrvOp(line).ev, line.cname)
    IN /\ Len(FiredForLine) <= Len(order)
       /\ FiredForLine = SubSeq(order, 1, Len(FiredForLine))
       /\ pc = "read" => FiredForLine = order

C11_Witness ==
  /\ pc = "read"
  /\ StandaloneLine
  /\ Len(FiredForLine) = 3
  /\ FiredForLine[1].name # FiredForLine[2].name
  /\ FiredForLine[2].scope = "global"
  /\ FiredForLine[3].scope = line.cname

\* C12: however the record stream is split into the bodies of consecutive
\* successful listen() calls, the transaction buffer and the handler calls
\* (made and owed) are those of processing the same records as one body; so
\* a transaction started in one call and committed in a later one has its
\* operations dispatched at the commit.
C12_SplitEqualsMerged ==
  /\ transactions = merged.txs
  /\ calls \o CallsOf(pending) = merged.calls

\* a commit read by the second listen() dispatches an operation that arrived
\* before a record the first listen() had dispatched for
C12_Witness ==
  /\ pc = "read"
  /\ IsRecord(2201)
  /\ \E i, j \in DOMAIN calls :
       /\ i <= calls_before /\ calls_before < j
       /\ calls[j].by = line.data
       /\ calls[j].tid = line.tid
       /\ calls[j].data < calls[i].by

\* C13: a handler that fails during a dispatch does not stop the dispatch and
\* does not make listen() fail: listen() is never unwound by a handler, and
\* outside a running dispatch no handler invocation is left owed.
C13_HandlerFailureIsolated ==
  /\ pc # "panicked"
  /\ pc # "exec" => pending = <<>>

\* the handler names of the subscriptions a dispatch of ev on collection c
\* reaches whose context does not downcast, in the order it reaches them
MismatchOrder(ev, c) ==
  LET bad(scope) ==
        SelectSeq(registered,
          LAMBDA r : r.scope = scope /\ r.ev = ev /\ ~r.ctx_ok)
      order == bad("global") \o bad(c)
  IN [i \in 1..Len(order) |-> order[i].name]

\* C14: when the dispatch of a standalone operation is over, every reached
\* subscription whose context does not downcast has produced exactly one
\* warning naming its handler and no call, every other reached subscription
\* has been called, in order, and the listen() call does not fail.
C14_MismatchSkipsAndWarns ==
  /\ (StandaloneLine /\ pc = "read") =>
       LET skipped == MismatchOrder(SrvOp(line).ev, line.cname)
       IN /\ Len(warns) >= Len(skipped)
          /\ SubSeq(warns, Len(warns) - Len(skipped) + 1, Len(warns)) = skipped
          /\ FiredForLine = FanOutOrder(SrvOp(line).ev, line.cname)
  /\ (pc = "idle" /\ call = "listen") => ret = Ok

C14_Witness ==
  /\ pc = "read"
  /\ StandaloneLine
  /\ Len(MismatchOrder(SrvOp(line).ev, line.cname)) = 1
  /\ Len(FiredForLine) = 2
  /\ \E i, j, k \in DOMAIN registered :
       /\ i < j /\ j < k
       /\ registered[i].ctx_ok /\ ~registered[j].ctx_ok /\ registered[k].ctx_ok
       /\ \A n \in {i, j, k} :
            registered[n].scope = "global" /\ registered[n].ev = SrvOp(line).ev

\* C15: the operations of transactions are dispatched in the order of the
\* CommitTransaction records, not of the StartTransaction records: every
\* call for a transaction is made by a record later than the operation's
\* own, that record is a commit of the operation's transaction, and the calls
\* of an earlier commit all come before the calls of a later one.
C15_CommitOrderNotStartOrder ==
  /\ \A i \in DOMAIN calls :
       calls[i].tid # "0" =>
         /\ calls[i].data < calls[i].by
         /\ calls[i].by = line.data =>
              (IsRecord(2201) /\ line.tid = calls[i].tid)
  /\ \A i, j \in DOMAIN calls :
       (calls[i].tid # "0" /\ calls[j].tid # "0"
          /\ calls[i].by < calls[j].by) => i < j

\* A's operation is record 2, so record 1 started A and B started later;
\* B's commit dispatched before A's
C15_Witness ==
  \E i, j \in DOMAIN calls :
    /\ i < j
    /\ calls[i].tid = "B" /\ calls[j].tid = "A"
    /\ calls[j].data = 2
    /\ calls[i].by < calls[j].by

\* C16: processing a well-formed CommitTransaction(tid) record owes handler
\* invocations only for operations buffered under tid, and leaves the buffer
\* entry of every other tid as it was.
C16_CommitTouchesOnlyItsTid ==
  [][(pc = "process" /\ IsRecord(2201))
       => /\ \A i \in DOMAIN pending' :
               /\ pending'[i].tid = line.tid
               /\ line.tid \in DOMAIN transactions
               /\ \E k \in DOMAIN transactions[line.tid] :
                    transactions[line.tid][k].data = pending'[i].data
          /\ \A t \in DOMAIN transactions \ {line.tid} :
               /\ t \in DOMAIN transactions'
               /\ transactions'[t] = transactions[t]]_vars

C16_Witness ==
  /\ pc = "read"
  /\ IsRecord(2201)
  /\ \E i \in DOMAIN calls : calls[i].by = line.data
  /\ \E t \in DOMAIN transactions \ {line.tid} : transactions[t] # <<>>

\* C17: a listen() whose response has a status that is neither 200 nor 204
\* returns the Api error carrying that status, and leaves the cursor, the
\* transaction buffer and the call history as they were.
C17_BadStatusFailsUnchanged ==
  [][(pc = "listen_wait" /\ resp'.status \notin {0, 200, 204})
       => /\ pc' = "idle"
          /\ ret'.kind = "Api"
          /\ ret'.status = resp'.status
          /\ last_log_tick' = last_log_tick
          /\ transactions' = transactions
          /\ calls' = calls
          /\ warns' = warns
          /\ pending' = <<>>
          /\ nrec' = nrec]_vars

C17_Witness ==
  /\ pc = "idle" /\ call = "listen"
  /\ ret.kind = "Api" /\ ret.status = 500
  /\ resp.status = 500 /\ resp.header \in Ticks /\ resp.header # last_log_tick
  /\ last_log_tick # 0
  /\ DOMAIN transactions # {}
  /\ calls # <<>>

\* C18: init() on a 200 response whose body decodes sets the cursor to
\* state.lastLogTick of the response and returns Ok; on any other status, 204
\* included, it returns the Api error for that status and leaves the cursor
\* as it was.
C18_InitSetsCursorOn200Only ==
  [][(pc = "init_wait" /\ resp'.status # 0)
       => /\ pc' = "idle"
          /\ (resp'.status = 200 /\ resp'.header # HdrInvalid)
               => (ret' = Ok /\ last_log_tick' = resp'.header)
          /\ resp'.status # 200
               => /\ ret'.kind = "Api"
                  /\ ret'.status = resp'.status
                  /\ last_log_tick' = last_log_tick]_vars

C18_Witness ==
  /\ pc = "idle" /\ call = "init"
  /\ resp.status = 204 /\ resp.header \in Ticks
  /\ ret.kind = "Api" /\ ret.status = 204
  /\ last_log_tick # 0
  /\ resp.header # last_log_tick

\* C19: after a listen() that returned Ok on a response whose header is
\* present and not "0", the cursor equals the header; and while a listen()
\* request is out, its from= value equals the cursor the call started with,
\* which is still the cursor.
C19_CursorIsHeader ==
  /\ (pc = "idle" /\ call = "listen" /\ ret = Ok
        /\ resp.header \in Ticks \ {0})
       => last_log_tick = resp.header
  /\ pc = "listen_wait" => current_tick = last_log_tick

C19_Witness ==
  /\ pc = "idle" /\ call = "listen" /\ ret = Ok
  /\ nlisten = 2
  /\ current_tick # 0
  /\ resp.header \in Ticks \ {0, current_tick}
  /\ line.data > 0

\* C20: processing a well-formed document record whose tid is not "0" and
\* not in the transaction buffer returns no error, owes and makes no handler
\* call, leaves the buffer as it was, and the next record can be read.
C20_UnknownTidDropped ==
  [][(pc = "process" /\ ~Defective(line) /\ line.code \in {2300, 2302}
        /\ line.tid # "0" /\ line.tid \notin DOMAIN transactions)
       => /\ pc' = "read"
          /\ ret' = ret
          /\ pending' = <<>>
          /\ calls' = calls
          /\ warns' = warns
          /\ transactions' = transactions]_vars

C20_Witness ==
  /\ pc = "read"
  /\ ~Defective(line) /\ line.code \in {2300, 2302}
  /\ line.tid # "0" /\ line.tid \notin DOMAIN transactions
  /\ DOMAIN transactions # {}
  /\ \A ev \in Events : subscriptions[ev] # <<>>

\* C21: no step of a listen() call takes the cursor from a value other than
\* "0" to "0", whatever the response is; so a request of a later listen()
\* carries from=0 only if the cursor was "0" before the earlier one.
C21_ListenNeverStoresZero ==
  [][(call = "listen" /\ pc # "idle" /\ last_log_tick # 0)
       => last_log_tick' # 0]_vars

\* the second listen() started from an advanced cursor, got the header "0"
\* and returned with the cursor still advanced
C21_Witness ==
  /\ pc = "idle" /\ call = "listen"
  /\ nlisten = 2
  /\ resp.status = 200 /\ resp.header = 0
  /\ slept = 1
  /\ current_tick # 0
  /\ last_log_tick = current_tick
  /\ calls # <<>>

\* C22: a listen() call that has started returns, with success or an error,
\* when the server answers, the body is finite and the handlers terminate.
C22_ListenReturns ==
  (call = "listen" /\ pc # "idle") ~> (pc = "idle")

\* the second listen() has read a body of two records and returned Ok
C22_Witness ==
  /\ pc = "idle" /\ call = "listen" /\ ret = Ok
  /\ nlisten = 2
  /\ resp.status = 200
  /\ line.data = 2
  /\ calls_before < Len(calls)

\* C23: a StartTransaction for a tid the buffer already holds replaces that
\* entry by an empty list and dispatches nothing, and a commit never hands a
\* handler an operation that was left behind by such a second start.
C23_RestartDiscards ==
  [][/\ (pc = "process" /\ IsRecord(2200) /\ line.tid \in DOMAIN transactions)
          => /\ transactions' = [transactions EXCEPT ![line.tid] = <<>>]
             /\ pending' = <<>>
             /\ calls' = calls
     /\ (pc = "process" /\ IsRecord(2201))
          => \A i \in DOMAIN pending' : \A d \in restarted :
               ~(pending'[i].tid = d.tid /\ pending'[i].data = d.data)]_vars

C23_Witness ==
  /\ pc = "read"
  /\ IsRecord(2201)
  /\ \E d \in restarted : d.tid = line.tid /\ d.data < line.data
  /\ \E i \in DOMAIN calls :
       /\ calls[i].by = line.data
       /\ calls[i].tid = line.tid
       /\ \A d \in restarted : d.data < calls[i].data

\* C24: a CommitTransaction record whose tid the buffer does not hold does
\* nothing: the line loop goes on to the next line, no handler is invoked, no
\* warning is printed and the buffer stays as it was.
C24_CommitOfUnknownTidIsNoOp ==
  [][(pc = "process" /\ IsRecord(2201) /\ line.tid \notin DOMAIN transactions)
       => /\ pc' = "read"
          /\ ret' = ret
          /\ pending' = <<>>
          /\ calls' = calls
          /\ warns' = warns
          /\ transactions' = transactions]_vars

C24_Witness ==
  /\ pc = "read"
  /\ IsRecord(2201)
  /\ line.tid \notin DOMAIN transactions
  /\ \E t \in DOMAIN transactions : transactions[t] # <<>>
  /\ \A ev \in Events : subscriptions[ev] # <<>>

\* C25: a listen() whose 200/204 response carries a header equal to the cursor
\* it took at its start returns Ok without reading the body: no record is
\* read, no handler is invoked, and the buffer and the cursor stay as they were.
C25_SameTickSkipsBody ==
  [][(pc = "listen_wait" /\ resp'.status \in {200, 204}
        /\ resp'.header = current_tick)
       => /\ pc' = "idle"
          /\ ret' = Ok
          /\ last_log_tick' = last_log_tick
          /\ transactions' = transactions
          /\ pending' = <<>>
          /\ calls' = calls
          /\ warns' = warns
          /\ nrec' = nrec
          /\ line' = line]_vars

C25_Witness ==
  /\ pc = "idle" /\ call = "listen" /\ ret = Ok
  /\ resp.status = 200
  /\ resp.header = current_tick
  /\ current_tick # 0
  /\ last_log_tick = current_tick
  /\ slept = 0
  /\ \E t \in DOMAIN transactions : transactions[t] # <<>>

\* the subscribe/subscribe_to calls, in call order, for kind ev in a scope
SubscribedFor(scope, ev) ==
  SelectSeq(registered, LAMBDA r : r.scope = scope /\ r.ev = ev)

\* the calls made and the invocations owed for the record read last
RoutedForLine ==
  SelectSeq(calls, LAMBDA v : v.by = line.data)
    \o SelectSeq(pending, LAMBDA v : v.ctx_ok)

\* C26: every handler invocation for a document record goes to a subscription
\* of the record's kind (InsertOrReplace for 2300, Remove for 2302) that is
\* global or attached to the record's collection; when the next record can be
\* read, every such subscription whose context downcasts has been invoked
\* once, the global ones whatever the collection is, and no other one has.
C26_RoutedByKindAndCollection ==
  (StandaloneLine /\ pc \in {"exec", "read"}) =>
    LET kind == SrvOp(line).ev
        scopes == {"global", line.cname}
    IN /\ \A i \in DOMAIN RoutedForLine :
            LET v == RoutedForLine[i]
            IN /\ v.scope \in scopes
               /\ v.ev = kind
               /\ v.idx \in DOMAIN SubscribedFor(v.scope, kind)
               /\ SubscribedFor(v.scope, kind)[v.idx].name = v.name
               /\ SubscribedFor(v.scope, kind)[v.idx].ctx_ok
               /\ \A j \in DOMAIN RoutedForLine :
                    (RoutedForLine[j].scope = v.scope
                       /\ RoutedForLine[j].idx = v.idx) => j = i
       /\ \A sc \in scopes : \A k \in DOMAIN SubscribedFor(sc, kind) :
            SubscribedFor(sc, kind)[k].ctx_ok =>
              \E i \in DOMAIN RoutedForLine :
                RoutedForLine[i].scope = sc /\ RoutedForLine[i].idx = k

C26_Witness ==
  /\ pc = "read"
  /\ StandaloneLine
  /\ line.code = 2302 /\ line.cname = "c2"
  /\ Len(SubscribedFor("global", "Remove")) = 1
  /\ Len(SubscribedFor("c1", "Remove")) = 1
  /\ Len(SubscribedFor("global", "InsertOrReplace")) = 1
  /\ \A r \in DOMAIN registered : registered[r].ctx_ok
  /\ Len(calls) = 1
  /\ calls[1].scope = "global" /\ calls[1].ev = "Remove"
  /\ calls[1].cname = "c2"

\* C27: at most one callback is in progress at any time; a callback is
\* called, a record is read or processed, and listen() returns only while no
\* callback is in progress.
C27_DispatchSequential ==
  [][/\ Cardinality(running') <= 1
     /\ (Len(calls') > Len(calls) \/ nrec' # nrec \/ line' # line
           \/ transactions' # transactions \/ pc' = "idle")
          => running = {}
     /\ pc' \in {"read", "process", "exec", "idle"} => running' = {}]_vars

C27_Witness ==
  /\ pc = "await"
  /\ IsRecord(2201)
  /\ Len(pending) = 1
  /\ Cardinality(running) = 1
  /\ Len(calls) - calls_before = 4
  /\ \E i, j \in DOMAIN calls :
       /\ i < j
       /\ calls[i].by = line.data /\ calls[j].by = line.data
       /\ calls[i].data < calls[j].data
       /\ calls[j] \in running

\* the line read last is one process_line cannot take: it lacks "type":, the
\* four characters after it are not all digits, it is a transaction or
\* document record without "tid":", or it is a document record, standalone
\* or of a buffered transaction, that does not decode
LineFails ==
  \/ ~line.has_type
  \/ \E i \in 1..4 : i > Len(line.type_rest) \/ ~IsDigit(line.type_rest[i])
  \/ line.code \in {2200, 2201, 2202, 2300, 2302} /\ ~line.has_tid
  \/ /\ line.code \in {2300, 2302}
     /\ line.has_tid /\ ~line.json_ok
     /\ line.tid = "0" \/ line.tid \in DOMAIN transactions

\* C28: when process_line cannot take a line, listen() returns the Serialize
\* error at that line: the line changes neither the buffer nor the calls made
\* by the lines before it, it owes no invocation, and nothing is read,
\* buffered or dispatched until listen() is called again.
C28_BadLineFailsAtOnce ==
  [][/\ (pc = "process" /\ LineFails)
          => /\ pc' = "idle"
             /\ ret'.kind = "Serialize"
             /\ transactions' = transactions
             /\ calls' = calls
             /\ pending' = <<>>
     /\ (pc = "idle" /\ call = "listen")
          => /\ transactions' = transactions
             /\ calls' = calls
             /\ pending' = <<>>
             /\ nrec' = nrec
             /\ pc' \in {"idle", "listen_wait"}]_vars

C28_Witness ==
  /\ pc = "idle" /\ call = "listen"
  /\ ret.kind = "Serialize"
  /\ LineFails
  /\ line.code = 2300 /\ line.tid = "A" /\ ~line.json_ok
  /\ line.data = 4
  /\ transactions["A"] # <<>>
  /\ Len(calls) > calls_before

\* C29: the cursor changes only in the step in which listen() has received
\* the headers of a 200/204 response, before any line of the body is read, or
\* in the step in which init() has decoded a 200 response; a call waits for
\* its response once, so a listen() writes the cursor at most once, and never
\* while a line is read or processed or a handler runs.
C29_CursorWrittenBetweenRequests ==
  [][/\ last_log_tick' # last_log_tick
          => \/ /\ call = "listen" /\ pc = "listen_wait"
                /\ pc' \in {"read", "idle"}
                /\ resp'.status \in {200, 204}
                /\ nrec' = nrec /\ calls' = calls /\ pending' = <<>>
             \/ /\ call = "init" /\ pc = "init_wait"
                /\ pc' = "idle"
                /\ resp'.status = 200 /\ resp'.header \in Ticks
     /\ (pc' \in {"listen_wait", "init_wait"} /\ pc' # pc)
          => pc = "idle" /\ last_log_tick' = last_log_tick]_vars

C29_Witness ==
  /\ pc = "exec" /\ call = "listen"
  /\ pending # <<>>
  /\ IsRecord(2201)
  /\ last_log_tick = resp.header
  /\ last_log_tick # current_tick
  /\ current_tick # 0

\* C30: processing a record leaves the buffered operations of every tid
\* other than the record's own as they were: a start, document operation,
\* commit or abort of tid X, a standalone operation, a schema record and a
\* line that fails all keep the entry of each tid Y # X, with the same
\* operations in the same order.
C30_OtherTidsUntouched ==
  [][pc = "process"
       => \A t \in DOMAIN transactions :
            (line.has_tid /\ t = line.tid)
              \/ (t \in DOMAIN transactions'
                    /\ transactions'[t] = transactions[t])]_vars

C30_Witness ==
  /\ pc = "read"
  /\ IsRecord(2300)
  /\ line.tid \in DOMAIN transactions
  /\ Len(transactions[line.tid]) = 1
  /\ transactions[line.tid][1].data = line.data
  /\ \E t \in DOMAIN transactions \ {line.tid} :
       /\ transactions[t] # <<>>
       /\ transactions[t][1].data < line.data

====
